---- MODULE Spec2Model ----
(***************************************************************************)
(* x-EchoMind: the topic cycle (bot.js), the approval protocol             *)
(* (approver.js), the duplicate-prevention store (state.js) and the cron   *)
(* scheduler (scheduler.js) as one state machine.                          *)
(*                                                                         *)
(* Granularity: one action per resumption of an `await`.  The synchronous  *)
(* code that runs between two awaits of one async task is one atomic step, *)
(* as it is on the single JavaScript thread.  Several runAllTopics tasks   *)
(* may be alive at once; their steps interleave at the awaits.             *)
(*                                                                         *)
(* Files: bot.js is src/src/bot.js, state.js is src/unnamed/part_005 (from *)
(* line 70), scheduler.js is src/unnamed/part_004, approver.js is          *)
(* src/unnamed/part_007 (to line 193), twitter.js is the rest of part_007, *)
(* tones.js is src/unnamed/part_003, ai.js is src/src/ai.js.               *)
(***************************************************************************)
EXTENDS Integers, Sequences, FiniteSets, TLC

(* ------------------------------ bounds -------------------------------- *)

\* state.js keeps the last 500 ids of each kind.  The model scales the
\* history bound so that eviction is reachable within a few cycles.
MAX_HISTORY == 2

\* posts one getAccountTweets call returns when any feed is considered
MaxFeed == 3

\* runAllTopics tasks alive at the same time
MaxLive == 2

\* runAllTopics tasks started over a whole behaviour (startup run and cron
\* ticks) when runs may overlap; cron itself never stops firing
MaxRuns == 2

\* the same when each run starts after the previous one has finished
MaxSeqRuns == 3

\* mark operations over a whole behaviour of the store driven directly
MaxMarks == 4

\* process restarts over the whole behaviour
MaxRestarts == 1

\* "Change tone" verdicts accepted per action instance; the code has no cap.
MaxRegen == 1

\* the same, when each run starts after the previous one has finished
MaxSeqRegen == 2

\* runAllTopics tasks started over a behaviour checked for progress
MaxFairRuns == 1

(* ------------------------------- data --------------------------------- *)

\* Tweets as normalised by the content source.  Ids are naturals here.
NoTweet == [id |-> 0, likes |-> 0, retweets |-> 0, replies |-> 0, isRetweet |-> FALSE]
TwA == [id |-> 1, likes |-> 40, retweets |-> 0, replies |-> 0, isRetweet |-> FALSE]
TwB == [id |-> 2, likes |-> 4, retweets |-> 4, replies |-> 0, isRetweet |-> FALSE]
TwC == [id |-> 3, likes |-> 5, retweets |-> 1, replies |-> 2, isRetweet |-> FALSE]
TwR == [id |-> 4, likes |-> 90, retweets |-> 9, replies |-> 0, isRetweet |-> TRUE]
\* a post whose score equals TwB's, made of replies only
TwD == [id |-> 5, likes |-> 0, retweets |-> 0, replies |-> 8, isRetweet |-> FALSE]

\* What getAccountTweets may return for an account ([] on any failure).
FetchResults(account) ==
    CASE account = "alpha" -> { <<TwA, TwB>> }
      [] account = "beta"  -> { <<TwB, TwR>> }
      [] account = "gamma" -> { <<TwC, TwR>>, <<TwR>> }
      [] OTHER             -> { <<>> }

\* TwA as a later fetch returns it: the same id with other counts
TwA2 == [id |-> 1, likes |-> 3, retweets |-> 0, replies |-> 0, isRetweet |-> FALSE]

\* Any feed: every sequence of at most MaxFeed posts, repeats included.
AnyFeeds ==
    UNION { [1 .. n -> {TwA, TwA2, TwB, TwD, TwR}] : n \in 0 .. MaxFeed }

\* config/topics.json
Topics ==
    << [name |-> "t1", enabled |-> TRUE,  accounts |-> <<"alpha", "beta">>, subjects |-> <<"s1">>],
       [name |-> "t2", enabled |-> FALSE, accounts |-> <<"alpha">>,         subjects |-> <<"s1">>],
       [name |-> "t3", enabled |-> TRUE,  accounts |-> <<"gamma">>,         subjects |-> <<>>] >>

\* config/settings.json: the action switches and likesPerCycle
SettingsSet ==
    { [runOnStart |-> TRUE, likesPerCycle |-> 2,
       actions |-> [postOriginal |-> TRUE, reply |-> TRUE, quoteTweet |-> TRUE, like |-> TRUE]],
      [runOnStart |-> FALSE, likesPerCycle |-> 2,
       actions |-> [postOriginal |-> FALSE, reply |-> TRUE, quoteTweet |-> TRUE, like |-> FALSE]],
      [runOnStart |-> TRUE, likesPerCycle |-> 1,
       actions |-> [postOriginal |-> TRUE, reply |-> FALSE, quoteTweet |-> FALSE, like |-> TRUE]] }

\* tones.js: the registry (two of its eight entries)
TONES ==
    << [value |-> "serious",  instruction |-> "Write in a serious, thoughtful tone."],
       [value |-> "humorous", instruction |-> "Write in a witty, funny tone."] >>
NoTone == "null"

\* the values of the registry
ToneIds == { TONES[i].value : i \in DOMAIN TONES }

\* JavaScript null as the result of a lookup
NullTone == [value |-> NoTone, instruction |-> ""]

\* tones.js getTone: TONES.find(t => t.value === value) ?? null
getTone(value) ==
    LET found == { i \in DOMAIN TONES : TONES[i].value = value } IN
    IF found = {} THEN NullTone
    ELSE TONES[CHOOSE i \in found : \A j \in found : i <= j]

\* a fragment built from the id, with no lookup
toneInstruction_Raw(value) == "\nTone: " \o value

\* tones.js toneInstruction: the fragment injected into a generator prompt
toneInstruction(value) ==
    LET tone == getTone(value) IN
    IF tone # NullTone THEN "\nTone: " \o tone.instruction ELSE ""

\* Texts.  A text is known by where it comes from, its length and the
\* length of its trim().  A generated draft depends on the category and the
\* tone it was generated with; null is what a generator returns on failure.
NoText == [src |-> "null", cat |-> "none", tone |-> NoTone, len |-> 0, trimLen |-> 0]
Draft(cat, tone) == [src |-> "gen", cat |-> cat, tone |-> tone, len |-> 120, trimLen |-> 120]
GenOutputs(cat, tone) == { NoText, Draft(cat, tone) }

\* ai.js lines 103, 141, 178: content.trim().replace(/^["']|["']$/g, '') of
\* any completion: the text has the length the model gave it (the prompt's
\* "Max 280 characters" is a request), it is "" for an empty completion, and
\* blanks inside a pair of quotes are left as blanks
Sized(text, len, trimLen) == [text EXCEPT !.len = len, !.trimLen = trimLen]
AnyGenOutputs(cat, tone) ==
    { NoText,
      Sized(Draft(cat, tone), 0, 0),
      Sized(Draft(cat, tone), 2, 0),
      Sized(Draft(cat, tone), 280, 280),
      Sized(Draft(cat, tone), 281, 281) }

\* what the operator may type into the edit prompt: length and trimmed length
Typed(len, trimLen) ==
    [src |-> "edit", cat |-> "none", tone |-> NoTone, len |-> len, trimLen |-> trimLen]
\* nothing, blanks only, exactly 280 characters, 281 characters
EditInputs == { Typed(0, 0), Typed(3, 0), Typed(280, 280), Typed(281, 281) }

\* a test for null only
Truthy_NotNull(text) == text.src # "null"

\* JavaScript truthiness of a text: null and "" are falsy
Truthy(text) == text.src # "null" /\ text.len > 0

NoResult == [action |-> "none", text |-> NoText, tone |-> NoTone]

(* ------------------------- sequence helpers --------------------------- *)

Range(s) == { s[i] : i \in DOMAIN s }
Includes(s, x) == \E i \in DOMAIN s : s[i] = x

\* Array.prototype.slice(-n)
SliceLast(s, n) == IF Len(s) <= n THEN s ELSE SubSeq(s, Len(s) - n + 1, Len(s))
\* Array.prototype.slice(0, n)
SliceFirst(s, n) == IF Len(s) <= n THEN s ELSE SubSeq(s, 1, n)

RECURSIVE Dedupe(_, _)
\* bot.js: .filter(t => { if (seen.has(t.id)) return false; seen.add(t.id); return true })
\* and, first, a filter that lets every post through
Dedupe_Off(s, seen) == s

\* bot.js lines 24-26: the filter over the `seen` set
Dedupe(s, seen) ==
    IF s = <<>> THEN <<>>
    ELSE IF Head(s).id \in seen THEN Dedupe(Tail(s), seen)
         ELSE <<Head(s)>> \o Dedupe(Tail(s), seen \cup {Head(s).id})

\* bot.js: .filter(t => !t.isRetweet)
NotRetweets(s) == SelectSeq(s, LAMBDA t : ~t.isRetweet)

\* a score in which a reply weighs as much as a like
engagementScore_FlatReplies(t) == 2 * t.likes + 4 * t.retweets + 2 * t.replies

\* bot.js engagementScore: likes + 2*retweets + 1.5*replies, held here in
\* half units (twice the score) so that it stays an integer.
engagementScore(t) == 2 * t.likes + 4 * t.retweets + 3 * t.replies

RECURSIVE InsertByScore(_, _)
\* t goes behind every element whose score is not lower: equal scores keep
\* their arrival order, as Array.prototype.sort (stable) does.
InsertByScore(sorted, t) ==
    IF sorted = <<>> THEN <<t>>
    ELSE IF engagementScore(Head(sorted)) >= engagementScore(t)
         THEN <<Head(sorted)>> \o InsertByScore(Tail(sorted), t)
         ELSE <<t>> \o sorted

RECURSIVE SortByScore(_)
\* bot.js: .sort((a, b) => engagementScore(b) - engagementScore(a))
SortByScore(s) ==
    IF s = <<>> THEN <<>>
    ELSE InsertByScore(SortByScore(SubSeq(s, 1, Len(s) - 1)), s[Len(s)])

\* bot.js lines 24-28: the candidate list of a cycle
Candidates(fetched) == SortByScore(NotRetweets(Dedupe(fetched, {})))

(* ------------------------ state.js: the store ------------------------- *)

\* state.js: the module-level default.  lastRunAt is a logical time, 0 for
\* null; `arrays` tells whether repliedTo, quotedTweets and postedTweets are
\* arrays, which they are unless the object came from a record lacking them.
EmptyState ==
    [repliedTo |-> <<>>, quotedTweets |-> <<>>, postedTweets |-> <<>>, lastRunAt |-> 0,
     arrays |-> TRUE]

\* JSON.stringify(state) / JSON.parse(text): a document is its syntax, then
\* whether it holds the three arrays, then the values of the four keys in
\* insertion order.
Stringify(st) ==
    << "json", st.arrays, st.repliedTo, st.quotedTweets, st.postedTweets, st.lastRunAt >>
\* JSON.parse throws a SyntaxError on anything else
Parseable(doc) == doc[1] = "json"
Parse(doc) ==
    [repliedTo |-> doc[3], quotedTweets |-> doc[4], postedTweets |-> doc[5],
     lastRunAt |-> doc[6], arrays |-> doc[2]]

NoFile == [exists |-> FALSE, doc |-> << "none", FALSE, <<>>, <<>>, <<>>, 0 >>]

\* loadState that never reads the file
loadState_NoRead(st, file) == st

\* state.js loadState: the in-memory state after loading from `file`; a
\* SyntaxError is swallowed and the state stays as it was
loadState(st, file) ==
    IF file.exists /\ Parseable(file.doc) THEN Parse(file.doc) ELSE st

\* saveState that trims with slice(0, MAX_HISTORY): the newest ids go first
saveState_KeepOldest(st) ==
    [repliedTo    |-> SliceFirst(st.repliedTo, MAX_HISTORY),
     quotedTweets |-> SliceFirst(st.quotedTweets, MAX_HISTORY),
     postedTweets |-> SliceFirst(st.postedTweets, MAX_HISTORY),
     lastRunAt    |-> st.lastRunAt + 1,
     arrays       |-> st.arrays]

\* state.js saveState: the trimmed in-memory state (what is written is its
\* JSON document); lastRunAt becomes the current time, later than the last
saveState(st) ==
    [repliedTo    |-> SliceLast(st.repliedTo, MAX_HISTORY),
     quotedTweets |-> SliceLast(st.quotedTweets, MAX_HISTORY),
     postedTweets |-> SliceLast(st.postedTweets, MAX_HISTORY),
     lastRunAt    |-> st.lastRunAt + 1,
     arrays       |-> st.arrays]

\* a write that stores the default record instead of the current state
WriteFile_Default(st) == [exists |-> TRUE, doc |-> Stringify(EmptyState)]

\* state.js line 108: fs.writeFileSync(STATE_PATH, JSON.stringify(state))
WriteFile(st) == [exists |-> TRUE, doc |-> Stringify(st)]

\* state.repliedTo.includes / .push on an object without the arrays raises
\* a TypeError
Throws(st) == ~st.arrays

hasRepliedTo(st, tweetId) == Includes(st.repliedTo, tweetId)
hasQuoted(st, tweetId) == Includes(st.quotedTweets, tweetId)

\* a mark that records the id twice
markReplied_Twice(st, tweetId) ==
    saveState([st EXCEPT !.repliedTo = Append(Append(@, tweetId), tweetId)])

markReplied(st, tweetId) == saveState([st EXCEPT !.repliedTo = Append(@, tweetId)])
\* a markQuoted that pushes the id to repliedTo as well
markQuoted_AlsoReplied(st, tweetId) ==
    saveState([st EXCEPT !.quotedTweets = Append(@, tweetId), !.repliedTo = Append(@, tweetId)])

markQuoted(st, tweetId) == saveState([st EXCEPT !.quotedTweets = Append(@, tweetId)])
\* a markPosted that pushes to repliedTo
markPosted_AsReplied(st, tweetId) == saveState([st EXCEPT !.repliedTo = Append(@, tweetId)])

markPosted(st, tweetId) == saveState([st EXCEPT !.postedTweets = Append(@, tweetId)])

(* ----------------------------- variables ------------------------------ *)

VARIABLES
    isTTY,      \* process.stdin.isTTY of the running process
    settings,   \* settings.json, loaded once
    state,      \* state.js: the in-memory store
    file,       \* data/state.json
    cronOn,     \* startScheduler has run: the cron job is registered
    runs,       \* runs[r]: the runAllTopics task in slot r, if any
    spawned,    \* number of runAllTopics tasks started so far
    restarts,   \* number of process restarts so far
    hist        \* history variable: every id ever marked, per kind, in order;
                \* `abandoned`: the category whose approval prompt was open
                \* when the process last ended ("none": no prompt was open)

vars == << isTTY, settings, state, file, cronOn, runs, spawned, restarts, hist >>

Slots == 1 .. MaxLive

\* A runAllTopics task: where it is suspended (pc) and its live locals.
\*   pc       the await the task is suspended at ("idle": no task)
\*   ti, ai   index of the topic being processed, of the account being fetched
\*   fetched  allTweets while the fetch loop runs; kept until the cycle ends
\*            as the record of the fetch order
\*   allTweets the candidate list of the cycle
\*   top      analysis.topEngagementTweet
\*   cat      the action category in progress
\*   target   reply target / quote candidate
\*   tone, text, result   the locals of the approve/regenerate loop
\*   edited   approveAction's `edited`
\*   arg      the text handed to the publisher call in flight
\*   err      the message the edit prompt shows after a rejected input
\*   regens   regenerate verdicts taken in this action instance
\*   gens     generator calls made in this action instance
\*   asks     approveAction calls made in this action instance
\*   log      the logger.warn / logger.error line written by the task's last
\*            synchronous stretch, if any
\*   li       index in toLike of the like call in flight
\*   note     ai.js toneNote of the last generator call of the category
\*   res      the id of the tweet postTweet resolved with (bot.js line 60),
\*            0 when it resolved with null
\*   broke    the last synchronous stretch left a do-while loop by its
\*            `break` (bot.js lines 54, 88, 122)
IdleRun ==
    [pc |-> "idle", ti |-> 0, ai |-> 0, fetched |-> <<>>, allTweets |-> <<>>,
     top |-> NoTweet, cat |-> "none", target |-> NoTweet, tone |-> NoTone,
     text |-> NoText, result |-> NoResult, edited |-> NoText, arg |-> NoText,
     err |-> "", regens |-> 0, gens |-> 0, asks |-> 0, li |-> 0, log |-> "",
     note |-> "", broke |-> FALSE, res |-> 0]

\* locals cleared but for the tone, as if `tone` were declared once for the
\* whole cycle
ClearAction_KeepTone(l) ==
    [l EXCEPT !.cat = "none", !.target = NoTweet, !.text = NoText,
              !.result = NoResult, !.edited = NoText, !.arg = NoText, !.err = "",
              !.regens = 0, !.gens = 0, !.asks = 0, !.li = 0, !.note = "",
              !.res = 0]

\* the locals of one action category, cleared when the category is left
ClearAction(l) ==
    [l EXCEPT !.cat = "none", !.target = NoTweet, !.tone = NoTone, !.text = NoText,
              !.result = NoResult, !.edited = NoText, !.arg = NoText, !.err = "",
              !.regens = 0, !.gens = 0, !.asks = 0, !.li = 0, !.note = "",
              !.res = 0]

(* --------------- bot.js runTopicCycle: synchronous stretches ---------- *)

\* scheduler.js runAllTopics line 46: runTopicCycle has returned or thrown;
\* await sleep(delayBetweenTopics)
EndCycle(l) ==
    [ClearAction(l) EXCEPT !.pc = "sleepTopic", !.fetched = <<>>, !.allTweets = <<>>, !.top = NoTweet]

\* a selection that takes the lowest-ranked candidates
toLike_Last(l) == SliceLast(l.allTweets, settings.likesPerCycle)

\* bot.js line 139: toLike
toLike(l) == SliceFirst(l.allTweets, settings.likesPerCycle)

\* bot.js line 140: the id handed to the likeTweet call in flight
LikeArg(l) == toLike(l)[l.li].id

\* bot.js lines 137-144: the like category up to its first await
EnterLike(l) ==
    IF settings.actions.like /\ toLike(l) # <<>>
    THEN [ClearAction(l) EXCEPT !.pc = "like", !.cat = "like", !.li = 1]
    ELSE EndCycle(l)

\* a find that forgets the hasQuoted test
QuoteCandidate_NoCheck(all, st) ==
    LET ok == { i \in DOMAIN all : engagementScore(all[i]) > 2 * 10 }
    IN  IF ok = {} THEN NoTweet ELSE all[CHOOSE i \in ok : \A j \in ok : i <= j]

\* a find whose threshold admits a score of exactly 10
QuoteCandidate_AtLeast(all, st) ==
    LET ok == { i \in DOMAIN all : ~hasQuoted(st, all[i].id) /\ engagementScore(all[i]) >= 2 * 10 }
    IN  IF ok = {} THEN NoTweet ELSE all[CHOOSE i \in ok : \A j \in ok : i <= j]

\* bot.js line 106: allTweets.find(t => !hasQuoted(t.id) && engagementScore(t) > 10)
QuoteCandidate(all, st) ==
    LET ok == { i \in DOMAIN all : ~hasQuoted(st, all[i].id) /\ engagementScore(all[i]) > 2 * 10 }
    IN  IF ok = {} THEN NoTweet ELSE all[CHOOSE i \in ok : \A j \in ok : i <= j]

\* bot.js lines 105-113: the quote category up to its first await
EnterQuote(l) ==
    IF settings.actions.quoteTweet /\ QuoteCandidate(l.allTweets, state) # NoTweet
    THEN [ClearAction(l) EXCEPT !.pc = "generate", !.cat = "quote", !.gens = 1,
                                !.note = toneInstruction(NoTone),
                                !.target = QuoteCandidate(l.allTweets, state)]
    ELSE EnterLike(l)

\* a reply guard that forgets the hasRepliedTo test
ReplyWanted_Always(l, st) == TRUE

\* bot.js line 73: the guard of the reply draft
ReplyWanted(l, st) == ~hasRepliedTo(st, l.top.id)

\* bot.js lines 70-79: the reply category up to its first await
EnterReply(l) ==
    IF settings.actions.reply /\ l.top # NoTweet /\ ReplyWanted(l, state)
    THEN [ClearAction(l) EXCEPT !.pc = "generate", !.cat = "reply", !.gens = 1,
                                !.note = toneInstruction(NoTone),
                                !.target = l.top]
    ELSE EnterQuote(l)

\* bot.js lines 40-45: the original-post category up to its first await
\* (randomPick chooses the subject; the subject only feeds the prompt)
EnterTweet(l) ==
    IF settings.actions.postOriginal /\ Len(Topics[l.ti].subjects) > 0
    THEN [ClearAction(l) EXCEPT !.pc = "generate", !.cat = "tweet", !.gens = 1,
                                !.note = toneInstruction(NoTone)]
    ELSE EnterReply(l)

\* a cycle that runs the quote category before the reply category
NextCategory_QuoteFirst(l) ==
    CASE l.cat = "tweet" -> EnterQuote(l)
      [] l.cat = "quote" -> EnterReply(l)
      [] l.cat = "reply" -> EnterLike(l)
      [] OTHER           -> EndCycle(l)

\* the category that follows `cat` in runTopicCycle
NextCategory(l) ==
    CASE l.cat = "tweet" -> EnterReply(l)
      [] l.cat = "reply" -> EnterQuote(l)
      [] l.cat = "quote" -> EnterLike(l)
      [] OTHER           -> EndCycle(l)

\* a loop over the topics without the `enabled === false` test
BeginTopic_IncludeDisabled(l, from) ==
    LET nxt == { i \in DOMAIN Topics : i >= from } IN
    IF nxt = {} THEN IdleRun
    ELSE LET ti == CHOOSE i \in nxt : \A j \in nxt : i <= j IN
         IF Len(Topics[ti].accounts) = 0
         THEN [EndCycle(l) EXCEPT !.ti = ti]
         ELSE [IdleRun EXCEPT !.pc = "fetch", !.ti = ti, !.ai = 1]

\* scheduler.js runAllTopics lines 35-40 and bot.js lines 16-20: skip the
\* disabled topics from index `from` on and start the cycle of the next
\* enabled one, up to its first await
BeginTopic(l, from) ==
    LET nxt == { i \in DOMAIN Topics : i >= from /\ Topics[i].enabled } IN
    IF nxt = {} THEN IdleRun
    ELSE LET ti == CHOOSE i \in nxt : \A j \in nxt : i <= j IN
         IF Len(Topics[ti].accounts) = 0
         THEN [EndCycle(l) EXCEPT !.ti = ti]
         ELSE [IdleRun EXCEPT !.pc = "fetch", !.ti = ti, !.ai = 1]

(* ------------------ approver.js approveAction: pieces ----------------- *)

\* approveAction returns `res`: the caller's await resumes with it
Verdict(l, res) ==
    [l EXCEPT !.pc = "verdict", !.result = res, !.edited = NoText, !.err = ""]

\* approveAction without the isTTY test: it always prompts
Present_AlwaysPrompt(l) == [l EXCEPT !.pc = "select", !.result = NoResult, !.asks = @ + 1]

\* approveAction whose no-terminal branch approves instead of skipping
Present_AutoApprove(l) ==
    IF ~isTTY
    THEN Verdict([l EXCEPT !.asks = @ + 1], [action |-> "post", text |-> l.text, tone |-> NoTone])
    ELSE [l EXCEPT !.pc = "select", !.result = NoResult, !.asks = @ + 1]

\* approver.js lines 49-82: approveAction is called with l.text and l.tone
\* and runs up to its first await, or returns at once without a terminal
Present(l) ==
    IF ~isTTY
    THEN Verdict([l EXCEPT !.asks = @ + 1], [action |-> "skip", text |-> l.text, tone |-> NoTone])
    ELSE [l EXCEPT !.pc = "select", !.result = NoResult, !.asks = @ + 1]

\* a validate callback that accepts nothing
validate_RejectAll(val) == IF val.trimLen = 0 THEN "Text cannot be empty" ELSE "Too long"

\* a validate callback without the length test
validate_NoLimit(val) == IF val.trimLen = 0 THEN "Text cannot be empty" ELSE "true"

\* approver.js lines 95-99: the validate callback of the edit input
validate(val) ==
    IF val.trimLen = 0 THEN "Text cannot be empty"
    ELSE IF val.len > 280 THEN "Too long"
    ELSE "true"

\* publishing the draft instead of the verdict's text
PublishArg_Draft(l) == l.text

\* bot.js lines 60-66, 93-100, 126-133: the text handed to the publisher
PublishArg(l) == l.result.text

\* ai.js: the line a generator logs in its catch before returning null
GenerateFailedLine(cat) ==
    CASE cat = "tweet" -> "AI: generateTweet failed"
      [] cat = "reply" -> "AI: generateReply failed"
      [] OTHER         -> "AI: generateQuoteComment failed"

\* bot.js lines 65, 99, 132: the line logged in the catch around a publish
PublishFailedLine(cat) ==
    CASE cat = "tweet" -> "Bot: post failed"
      [] cat = "reply" -> "Bot: reply failed"
      [] OTHER         -> "Bot: quote-tweet failed"

\* a publish failure followed by the inter-action delay
PublishFailed_Sleep(l) == [l EXCEPT !.pc = "sleepAction", !.log = PublishFailedLine(l.cat)]

\* a publish failure that leaves runTopicCycle
PublishFailed_Abort(l) == EndCycle([l EXCEPT !.log = "Scheduler: unhandled error"])

\* bot.js lines 65, 99, 132: the publisher call rejected; the catch logs and
\* the cycle goes on behind the category
PublishFailed(l) == NextCategory([l EXCEPT !.log = PublishFailedLine(l.cat)])

\* a failed regeneration that presents the previous draft again
DraftFailed_PresentAgain(l) ==
    IF l.regens > 0 /\ l.asks < 3
    THEN Present([l EXCEPT !.log = GenerateFailedLine(l.cat)])
    ELSE NextCategory([l EXCEPT !.log = GenerateFailedLine(l.cat)])

\* a null draft that leaves runTopicCycle
DraftFailed_Abort(l) == EndCycle([l EXCEPT !.log = GenerateFailedLine(l.cat)])

\* bot.js lines 47, 54, 81, 88, 115, 122: the generator returned a falsy
\* text (first draft: the category is left; regeneration: the verdict
\* becomes skip and the loop is left), after ai.js logged the failure
DraftFailed(l) ==
    NextCategory([l EXCEPT !.log = GenerateFailedLine(l.cat), !.broke = (l.regens > 0)])

\* bot.js lines 47, 54, 81, 88, 115, 122: the generator returned "" (ai.js
\* logged no failure): the same paths as for null
DraftEmpty(l) == NextCategory([l EXCEPT !.broke = (l.regens > 0)])

\* a loop that regenerates without taking the tone of the verdict
AfterVerdict_KeepTone(l) ==
    CASE l.result.action = "regenerate" ->
             [l EXCEPT !.pc = "generate", !.regens = @ + 1, !.gens = @ + 1,
                       !.note = toneInstruction(l.tone)]
      [] l.result.action = "post" ->
             [l EXCEPT !.pc = "publish", !.arg = PublishArg(l)]
      [] OTHER -> NextCategory(l)

\* a loop that asks again after a skip verdict
AfterVerdict_RetryOnSkip(l) ==
    CASE l.result.action = "regenerate" ->
             [l EXCEPT !.pc = "generate", !.tone = l.result.tone, !.regens = @ + 1,
                       !.gens = @ + 1, !.note = toneInstruction(l.result.tone)]
      [] l.result.action = "post" ->
             [l EXCEPT !.pc = "publish", !.arg = PublishArg(l)]
      [] OTHER -> IF l.asks < 2 THEN Present(l) ELSE NextCategory(l)

\* bot.js: what follows `await approveAction(...)` in the do-while loop
AfterVerdict(l) ==
    CASE l.result.action = "regenerate" ->
             [l EXCEPT !.pc = "generate", !.tone = l.result.tone, !.regens = @ + 1,
                       !.gens = @ + 1, !.note = toneInstruction(l.result.tone)]
      [] l.result.action = "post" ->
             [l EXCEPT !.pc = "publish", !.arg = PublishArg(l)]
      [] OTHER -> NextCategory(l)

(* ------------------------------ actions ------------------------------- *)

Active(l) == l.pc # "idle"

Init ==
    /\ isTTY \in BOOLEAN
    /\ settings \in SettingsSet
    /\ file = NoFile
    /\ state = loadState(EmptyState, NoFile)
    /\ cronOn = FALSE
    /\ runs = [r \in Slots |-> IdleRun]
    /\ spawned = 0
    /\ restarts = 0
    /\ hist = [repliedTo |-> <<>>, quotedTweets |-> <<>>, postedTweets |-> <<>>,
               abandoned |-> "none"]

\* scheduler.js runAllTopics is called (not awaited): a new task runs up to
\* its first await
Spawn ==
    LET free == { r \in Slots : ~Active(runs[r]) } IN
    /\ free # {}
    /\ spawned' = spawned + 1
    /\ runs' = [runs EXCEPT ![CHOOSE r \in free : \A q \in free : r <= q] = BeginTopic(IdleRun, 1)]

\* scheduler.js startScheduler; `limit` bounds the runs of the behaviour
Start(limit) ==
    /\ ~cronOn
    /\ cronOn' = TRUE
    /\ IF settings.runOnStart /\ spawned < limit
       THEN Spawn
       ELSE UNCHANGED << runs, spawned >>
    /\ UNCHANGED << isTTY, settings, state, file, restarts, hist >>

\* scheduler.js lines 25-28: the cron callback fires
Tick(limit) ==
    /\ cronOn
    /\ spawned < limit
    /\ Spawn
    /\ UNCHANGED << isTTY, settings, state, file, cronOn, restarts, hist >>

StartScheduler == Start(MaxRuns)
CronTick == Tick(MaxRuns)

\* the task in slot r resumes from its await: `log` starts empty for the
\* synchronous stretch that follows
Resume(r) == [runs[r] EXCEPT !.log = "", !.broke = FALSE]

\* the stretch ends at the next await with the task as l2
Step(r, l2) ==
    /\ runs' = [runs EXCEPT ![r] = l2]
    /\ UNCHANGED << isTTY, settings, state, file, cronOn, spawned, restarts, hist >>

\* a cycle that goes on to the analyzer with an empty candidate list
Fetched_NoShortCircuit(l, tweets) ==
    LET got == l.fetched \o tweets IN
    IF l.ai < Len(Topics[l.ti].accounts)
    THEN [l EXCEPT !.fetched = got, !.ai = @ + 1]
    ELSE [l EXCEPT !.pc = "analyze", !.fetched = got, !.ai = 0,
                   !.allTweets = Candidates(got)]

\* bot.js lines 19-31: getAccountTweets resolved with `tweets`; next account,
\* or dedupe, filter, sort and the empty-list return
Fetched(l, tweets) ==
    LET got == l.fetched \o tweets IN
    IF l.ai < Len(Topics[l.ti].accounts)
    THEN [l EXCEPT !.fetched = got, !.ai = @ + 1]
    ELSE IF Candidates(got) = <<>>
         THEN EndCycle([l EXCEPT !.log = "Bot: no tweets found"])
         ELSE [l EXCEPT !.pc = "analyze", !.fetched = got, !.ai = 0,
                        !.allTweets = Candidates(got)]

\* bot.js lines 19-31: getAccountTweets resolves
FetchReturn(r) ==
    LET l == Resume(r) IN
    /\ l.pc = "fetch"
    /\ \E tweets \in FetchResults(Topics[l.ti].accounts[l.ai]) : Step(r, Fetched(l, tweets))

\* bot.js lines 34-45: analyzeTweets resolves; topEngagementTweet is any of
\* the candidates or missing
AnalyzeReturn(r) ==
    LET l == Resume(r) IN
    /\ l.pc = "analyze"
    /\ \E top \in Range(l.allTweets) \cup {NoTweet} :
         Step(r, EnterTweet([l EXCEPT !.top = top]))

\* bot.js lines 45-55, 79-89, 113-123: generateTweet / generateReply /
\* generateQuoteComment resolves (first draft or regeneration)
Generate(r, outputs) ==
    LET l == Resume(r) IN
    /\ l.pc = "generate"
    /\ \E text \in outputs :
         Step(r, CASE Truthy(text)  -> Present([l EXCEPT !.text = text])
                   [] text = NoText -> DraftFailed(l)
                   [] OTHER         -> DraftEmpty(l))

GenerateReturn(r) == Generate(r, GenOutputs(runs[r].cat, runs[r].tone))

\* approver.js lines 74-88, 133-135: the operator answers the select prompt;
\* `limit` bounds the "Change tone" answers of one action instance
Select(r, limit) ==
    LET l == Resume(r) IN
    /\ l.pc = "select"
    /\ \E choice \in {"approve", "edit", "tone", "skip"} :
         CASE choice = "skip" ->
                  Step(r, Verdict(l, [action |-> "skip", text |-> l.text, tone |-> NoTone]))
           [] choice = "edit" ->
                  Step(r, [l EXCEPT !.pc = "input"])
           [] choice = "tone" ->
                  l.regens < limit /\ Step(r, [l EXCEPT !.pc = "pickTone"])
           [] OTHER ->
                  Step(r, Verdict(l, [action |-> "post", text |-> l.text, tone |-> NoTone]))

SelectReturn(r) == Select(r, MaxRegen)

\* approver.js lines 92-107: the operator submits an edit; an invalid one is
\* rejected with a message and the prompt stays open
InputReturn(r) ==
    LET l == Resume(r) IN
    /\ l.pc = "input"
    /\ \E val \in EditInputs :
         Step(r, IF validate(val) = "true"
                 THEN [l EXCEPT !.pc = "confirm", !.edited = val, !.err = ""]
                 ELSE [l EXCEPT !.err = validate(val)])

\* a decline that hands back the text approveAction was given
Confirmed_DeclineOriginal(l, ok) ==
    IF ok THEN [action |-> "post", text |-> l.edited, tone |-> NoTone]
    ELSE [action |-> "skip", text |-> l.text, tone |-> NoTone]

\* approver.js lines 108-114: what approveAction returns after the answer
\* `ok` to "Post this?"
Confirmed(l, ok) ==
    IF ok THEN [action |-> "post", text |-> l.edited, tone |-> NoTone]
    ELSE [action |-> "skip", text |-> l.edited, tone |-> NoTone]

\* approver.js lines 107-114: the operator answers "Post this?"
ConfirmReturn(r) ==
    LET l == Resume(r) IN
    /\ l.pc = "confirm"
    /\ \E ok \in BOOLEAN : Step(r, Verdict(l, Confirmed(l, ok)))

\* a tone list with no entry disabled
ToneChoices_All(l) == ToneIds

\* approver.js lines 121-125: the selectable entries of the tone list; the
\* entry whose value is the `tone` argument is disabled
ToneChoices(l) == { t \in ToneIds : t # l.tone }

\* approver.js lines 118-131: the operator picks a tone; the current one is
\* disabled in the list
PickToneReturn(r) ==
    LET l == Resume(r) IN
    /\ l.pc = "pickTone"
    /\ \E t \in ToneChoices(l) :
         Step(r, Verdict(l, [action |-> "regenerate", text |-> l.text, tone |-> t]))

\* bot.js lines 49-58, 83-92, 117-126: approveAction's promise resolves
VerdictReturn(r) ==
    LET l == Resume(r) IN
    /\ l.pc = "verdict"
    /\ Step(r, AfterVerdict(l))

\* the id the platform gives to the next post of the account
NewTweetId == 100 + Len(hist.postedTweets) + 1

\* a mark operation has run: in-memory state st2, written through
Marked(st2, kind, id) ==
    /\ state' = st2
    /\ file' = WriteFile(st2)
    /\ hist' = [hist EXCEPT ![kind] = Append(@, id)]

\* bot.js lines 59-66, 93-100, 126-133: postTweet / replyToTweet / quoteTweet
\* resolves with a tweet, resolves with null, or rejects
PublishReturn(r) ==
    LET l == Resume(r) IN
    /\ l.pc = "publish"
    /\ \E outcome \in {"tweet", "null", "reject"} :
         IF outcome = "reject"
         THEN /\ runs' = [runs EXCEPT ![r] = PublishFailed(l)]
              /\ UNCHANGED << state, file, hist >>
         ELSE /\ runs' = [runs EXCEPT ![r] =
                          [l EXCEPT !.pc = "sleepAction",
                                    !.res = IF l.cat = "tweet" /\ outcome = "tweet"
                                            THEN NewTweetId ELSE 0]]
              /\ CASE l.cat = "reply" -> Marked(markReplied(state, l.target.id), "repliedTo", l.target.id)
                   [] l.cat = "quote" -> Marked(markQuoted(state, l.target.id), "quotedTweets", l.target.id)
                   [] OTHER ->
                        IF outcome = "tweet"
                        THEN Marked(markPosted(state, NewTweetId), "postedTweets", NewTweetId)
                        ELSE UNCHANGED << state, file, hist >>
    /\ UNCHANGED << isTTY, settings, cronOn, spawned, restarts >>

\* bot.js lines 64, 98, 131: sleep(delayBetweenActions) resolves
SleepActionReturn(r) ==
    LET l == Resume(r) IN
    /\ l.pc = "sleepAction"
    /\ Step(r, NextCategory(l))

\* a runAllTopics without the try/catch around runTopicCycle: the rejection
\* ends the run
LikeFailed_StopRun(l) == IdleRun

\* bot.js line 140, scheduler.js lines 42-44: likeTweet rejected; nothing in
\* runTopicCycle catches it, runAllTopics' catch logs it
LikeFailed(l) == EndCycle([l EXCEPT !.log = "Scheduler: unhandled error"])

\* bot.js line 140: likeTweet resolves or rejects; a rejection is not caught
\* in runTopicCycle and ends the cycle in runAllTopics' catch
LikeReturn(r) ==
    LET l == Resume(r) IN
    /\ l.pc = "like"
    /\ \E ok \in BOOLEAN :
         Step(r, IF ok THEN [l EXCEPT !.pc = "sleepLike"] ELSE LikeFailed(l))

\* bot.js line 140: sleep(2000) resolves; next like or end of the cycle
SleepLikeReturn(r) ==
    LET l == Resume(r) IN
    /\ l.pc = "sleepLike"
    /\ Step(r, IF l.li < Len(toLike(l)) THEN [l EXCEPT !.pc = "like", !.li = @ + 1]
               ELSE EndCycle(l))

\* scheduler.js line 46: sleep(delayBetweenTopics) resolves; next topic
SleepTopicReturn(r) ==
    LET l == Resume(r) IN
    /\ l.pc = "sleepTopic"
    /\ Step(r, BeginTopic(l, l.ti + 1))

\* the tasks suspended in approveAction at one of its prompts
Prompted(rs) == { r \in Slots : rs[r].pc \in {"select", "input", "confirm", "pickTone"} }

\* the category of the prompt that is open, "none" when there is none
AbandonedCat(rs) ==
    IF Prompted(rs) = {} THEN "none" ELSE rs[CHOOSE r \in Prompted(rs) : TRUE].cat

\* a shutdown that records the reply whose prompt is open before it exits
Exit_Flush(f, st, rs) ==
    IF \E r \in Prompted(rs) : rs[r].cat = "reply"
    THEN WriteFile(markReplied(st, rs[CHOOSE r \in Prompted(rs) : rs[r].cat = "reply"].target.id))
    ELSE f

\* index.js line 53 (and the default SIGINT action): logger.info, then
\* process.exit(0); the record on disk when the process has ended is the
\* record f it had, whatever the store st and the tasks rs
Exit(f, st, rs) == f

\* The process ends (SIGINT/SIGTERM: exit without flushing anything) and is
\* started again: every task is gone, the module state is the default and
\* index.js main calls loadState.
Restart ==
    /\ restarts < MaxRestarts
    /\ restarts' = restarts + 1
    /\ cronOn' = FALSE
    /\ runs' = [r \in Slots |-> IdleRun]
    /\ file' = Exit(file, state, runs)
    /\ state' = loadState(EmptyState, file')
    /\ hist' = [hist EXCEPT !.abandoned = AbandonedCat(runs)]
    /\ UNCHANGED << isTTY, settings, spawned >>

\* an await of the task in slot r resolves, the select prompt and the
\* generator calls apart
OtherReturn(r) ==
    \/ FetchReturn(r)
    \/ AnalyzeReturn(r)
    \/ InputReturn(r)
    \/ ConfirmReturn(r)
    \/ PickToneReturn(r)
    \/ VerdictReturn(r)
    \/ PublishReturn(r)
    \/ SleepActionReturn(r)
    \/ LikeReturn(r)
    \/ SleepLikeReturn(r)
    \/ SleepTopicReturn(r)

AwaitReturn(r) == GenerateReturn(r) \/ OtherReturn(r)

RunStep(r) == SelectReturn(r) \/ AwaitReturn(r)

Next ==
    \/ StartScheduler
    \/ CronTick
    \/ \E r \in Slots : RunStep(r)

\* One process lifetime of the program: cron fires whether or not an
\* earlier run has finished.
Spec == Init /\ [][Next]_vars

\* A caller that starts the next run only when no run is in progress:
\* runTopicCycle executions strictly one after the other.
StartSchedulerSeq == Start(MaxSeqRuns)
CronTickIdle ==
    /\ \A r \in Slots : ~Active(runs[r])
    /\ Tick(MaxSeqRuns)

SelectReturnSeq(r) == Select(r, MaxSeqRegen)

RunStepSeq(r) == SelectReturnSeq(r) \/ AwaitReturn(r)

NextSeq ==
    \/ StartSchedulerSeq
    \/ CronTickIdle
    \/ Restart
    \/ \E r \in Slots : RunStepSeq(r)

SpecSeq == Init /\ [][NextSeq]_vars

\* bot.js lines 19-31 over any feed: getAccountTweets resolves with any
\* sequence of posts
FetchAnyReturn(r) ==
    LET l == Resume(r) IN
    /\ l.pc = "fetch"
    /\ \E tweets \in AnyFeeds : Step(r, Fetched(l, tweets))

NextRank ==
    \/ StartSchedulerSeq
    \/ CronTickIdle
    \/ \E r \in Slots : FetchAnyReturn(r)

\* The first cycle of a process up to its candidate list, over any feeds
SpecRank == Init /\ [][NextRank]_vars

(* ------------------- the store driven directly ------------------------ *)

TweetIds == { TwA.id, TwB.id, TwC.id }
Marks == Len(hist.repliedTo) + Len(hist.quotedTweets) + Len(hist.postedTweets)

\* a caller invokes a mark operation; on an object without the arrays the
\* push raises before anything is changed or written
CallMark(st2, kind, id) ==
    /\ Marks < MaxMarks
    /\ IF Throws(state) THEN UNCHANGED << state, file, hist >> ELSE Marked(st2, kind, id)
    /\ UNCHANGED << isTTY, settings, cronOn, runs, spawned, restarts >>

CallMarkReplied == \E id \in TweetIds : CallMark(markReplied(state, id), "repliedTo", id)
CallMarkQuoted == \E id \in TweetIds : CallMark(markQuoted(state, id), "quotedTweets", id)
CallMarkPosted == \E id \in TweetIds : CallMark(markPosted(state, id), "postedTweets", id)

NextStore ==
    \/ CallMarkReplied
    \/ CallMarkQuoted
    \/ CallMarkPosted
    \/ Restart

\* state.js alone: loadState at each process start, then any mark calls
SpecStore == Init /\ [][NextStore]_vars

\* What data/state.json may hold when a process starts: nothing, text that
\* is not JSON, JSON without the id arrays (such as {}), or a record written
\* by an earlier process.
ExternalFiles ==
    { NoFile,
      [exists |-> TRUE, doc |-> << "garbage", FALSE, <<>>, <<>>, <<>>, 0 >>],
      [exists |-> TRUE, doc |-> << "json", FALSE, <<>>, <<>>, <<>>, 0 >>],
      WriteFile(markReplied(EmptyState, TwA.id)) }

\* process start over any such record: index.js main calls loadState
InitLoad ==
    /\ isTTY \in BOOLEAN
    /\ settings \in SettingsSet
    /\ file \in ExternalFiles
    /\ state = loadState(EmptyState, file)
    /\ cronOn = FALSE
    /\ runs = [r \in Slots |-> IdleRun]
    /\ spawned = 0
    /\ restarts = 0
    /\ hist = [repliedTo |-> state.repliedTo, quotedTweets |-> state.quotedTweets,
               postedTweets |-> state.postedTweets, abandoned |-> "none"]

\* state.js alone, started over any record
SpecLoad == InitLoad /\ [][NextStore]_vars

\* One run under fair scheduling: every pending collaborator call and timer
\* resolves, and the operator answers every open prompt, an edit prompt with
\* a text that validate accepts.
StartSchedulerFair == Start(MaxFairRuns)
CronTickFair == Tick(MaxFairRuns)

\* approver.js lines 92-100: the input prompt resolves with an accepted text
InputAccepted(r) == InputReturn(r) /\ runs'[r].pc = "confirm"

NextFair ==
    \/ StartSchedulerFair
    \/ CronTickFair
    \/ \E r \in Slots : RunStep(r)

Fairness ==
    \A r \in Slots :
        /\ WF_vars(FetchReturn(r))
        /\ WF_vars(AnalyzeReturn(r))
        /\ WF_vars(GenerateReturn(r))
        /\ WF_vars(SelectReturn(r))
        /\ WF_vars(InputAccepted(r))
        /\ WF_vars(ConfirmReturn(r))
        /\ WF_vars(PickToneReturn(r))
        /\ WF_vars(VerdictReturn(r))
        /\ WF_vars(PublishReturn(r))
        /\ WF_vars(SleepActionReturn(r))
        /\ WF_vars(LikeReturn(r))
        /\ WF_vars(SleepLikeReturn(r))
        /\ WF_vars(SleepTopicReturn(r))

SpecFair == Init /\ [][NextFair]_vars /\ Fairness

\* data/state.json when the process starts: absent, or a record holding more
\* replied ids than MAX_HISTORY (written by hand or under a larger limit)
LongFiles ==
    { NoFile,
      WriteFile([EmptyState EXCEPT !.repliedTo = << TwA.id, TwB.id, TwC.id >>,
                                   !.lastRunAt = 1]) }

InitLong ==
    /\ isTTY \in BOOLEAN
    /\ settings \in SettingsSet
    /\ file \in LongFiles
    /\ state = loadState(EmptyState, file)
    /\ cronOn = FALSE
    /\ runs = [r \in Slots |-> IdleRun]
    /\ spawned = 0
    /\ restarts = 0
    /\ hist = [repliedTo |-> <<>>, quotedTweets |-> <<>>, postedTweets |-> <<>>,
               abandoned |-> "none"]

\* state.js alone, over a record of any length
SpecStoreLong == InitLong /\ [][NextStore]_vars

\* Runs one after the other, the generators returning texts of any length
StartSchedulerText == Start(MaxRuns)
CronTickText ==
    /\ \A r \in Slots : ~Active(runs[r])
    /\ Tick(MaxRuns)

GenerateAnyReturn(r) == Generate(r, AnyGenOutputs(runs[r].cat, runs[r].tone))

NextText ==
    \/ StartSchedulerText
    \/ CronTickText
    \/ \E r \in Slots : SelectReturnSeq(r) \/ GenerateAnyReturn(r) \/ OtherReturn(r)

SpecText == Init /\ [][NextText]_vars

\* data/state.json as an earlier process left it: absent, or a record with
\* one replied and one quoted id
EarlierFiles ==
    { NoFile,
      WriteFile([EmptyState EXCEPT !.repliedTo = << TwB.id >>, !.quotedTweets = << TwA.id >>,
                                   !.lastRunAt = 1]) }

\* index.js main: loadState, then the scheduler
InitLoaded ==
    /\ isTTY \in BOOLEAN
    /\ settings \in SettingsSet
    /\ file \in EarlierFiles
    /\ state = loadState(EmptyState, file)
    /\ cronOn = FALSE
    /\ runs = [r \in Slots |-> IdleRun]
    /\ spawned = 0
    /\ restarts = 0
    /\ hist = [repliedTo |-> state.repliedTo, quotedTweets |-> state.quotedTweets,
               postedTweets |-> state.postedTweets, abandoned |-> "none"]

\* Runs one after the other, over a record loaded at startup
SpecSeqLoaded == InitLoaded /\ [][NextSeq]_vars

\* tones.js alone: a caller applies toneInstruction to an id of the
\* registry, to null, or to a string that is no id of it
ToneArgs == ToneIds \cup {NoTone, "Serious", "unknown"}

CallToneInstruction(r) ==
    /\ \E value \in ToneArgs :
          runs' = [runs EXCEPT ![r] = [IdleRun EXCEPT !.tone = value,
                                                      !.note = toneInstruction(value)]]
    /\ UNCHANGED << isTTY, settings, state, file, cronOn, spawned, restarts, hist >>

NextTone == \E r \in Slots : CallToneInstruction(r)

SpecTone == Init /\ [][NextTone]_vars

(* ------------------------------ claims -------------------------------- *)

PromptPcs == {"select", "input", "confirm", "pickTone"}
\* from the first generate call of an action instance to its publish call
DraftPcs == {"generate", "verdict", "publish"} \cup PromptPcs

\* the ids still inside the bounded window of a full history
Window(h) == Range(SliceLast(h, MAX_HISTORY))

\* no id occurs twice in h unless MAX_HISTORY or more later ids separate the
\* two occurrences (the first was evicted before the second)
OnceUnlessEvicted(h) ==
    \A i, j \in DOMAIN h : (i < j /\ h[i] = h[j]) => j - i > MAX_HISTORY

\* C1: approval gate.  Whenever a postTweet, replyToTweet or quoteTweet call
\* is in flight, the last approveAction verdict of that action instance is
\* 'post' and the text handed to the publisher is that verdict's text; so
\* nothing is published on a 'skip' or 'regenerate' verdict.
C1_ApprovalGate ==
    \A r \in Slots :
        runs[r].pc = "publish" =>
            /\ runs[r].cat \in {"tweet", "reply", "quote"}
            /\ runs[r].result.action = "post"
            /\ runs[r].arg = runs[r].result.text

\* C1 witness: an edited reply is being published
C1_Witness ==
    \E r \in Slots :
        /\ runs[r].pc = "publish"
        /\ runs[r].cat = "reply"
        /\ runs[r].arg.src = "edit"
        /\ runs[r].text.src = "gen"

InCycle(l) == l.pc \notin {"idle", "sleepTopic"}

\* C5: no concurrent cycles.  At most one runTopicCycle is in progress at
\* any time, and no two action categories are in progress at the same time.
C5_NoConcurrentCycles ==
    \A r, q \in Slots :
        r # q => ~(InCycle(runs[r]) /\ InCycle(runs[q]))

\* C6: never double-engage.  A reply (a quote) is published at most once for
\* any tweet id still inside the history window: no id is marked twice
\* inside the window, no publish is in flight for an id already marked, and
\* no two publishes of the same kind are in flight for the same id.
C6_NeverDoubleEngage ==
    /\ OnceUnlessEvicted(hist.repliedTo)
    /\ OnceUnlessEvicted(hist.quotedTweets)
    /\ \A r \in Slots :
          runs[r].pc = "publish" =>
              /\ runs[r].cat = "reply" => ~hasRepliedTo(state, runs[r].target.id)
              /\ runs[r].cat = "quote" => ~hasQuoted(state, runs[r].target.id)
    /\ \A r, q \in Slots :
          (r # q /\ runs[r].pc = "publish" /\ runs[q].pc = "publish"
                 /\ runs[r].cat = runs[q].cat /\ runs[r].cat \in {"reply", "quote"})
              => runs[r].target.id # runs[q].target.id

\* C7: duplicate-prevention facts survive a restart.  The sequences loaded
\* by loadState in the next process equal the sequences last saved, and
\* hasRepliedTo / hasQuoted hold of every id among the MAX_HISTORY most
\* recently marked of its kind.
C7_MarksSurviveRestart ==
    [][ restarts' # restarts =>
          /\ state'.repliedTo = state.repliedTo
          /\ state'.quotedTweets = state.quotedTweets
          /\ state'.postedTweets = state.postedTweets
          /\ \A p \in Window(hist.repliedTo) : hasRepliedTo(state', p)
          /\ \A p \in Window(hist.quotedTweets) : hasQuoted(state', p) ]_vars

\* C7 witness: a process that was restarted knows an id marked replied and
\* an id marked quoted, after an older replied id was evicted
C7_Witness ==
    /\ restarts > 0
    /\ Len(hist.repliedTo) > MAX_HISTORY
    /\ hasRepliedTo(state, TwB.id)
    /\ hasQuoted(state, TwA.id)
    /\ Marks = MaxMarks

\* C8: no-TTY fail-safe of the protocol.  Without a terminal no select,
\* input or confirm prompt is ever open, and every verdict approveAction
\* returns is 'skip' carrying the text it was given.
C8_NoTTYSkips ==
    ~isTTY =>
        \A r \in Slots :
            /\ runs[r].pc \notin PromptPcs
            /\ runs[r].pc = "verdict" =>
                  (runs[r].result.action = "skip" /\ runs[r].result.text = runs[r].text)

\* C8 witness: approveAction has returned for a quote draft without a terminal
C8_Witness ==
    \E r \in Slots :
        ~isTTY /\ runs[r].pc = "verdict" /\ runs[r].cat = "quote" /\ Truthy(runs[r].text)

\* C9: unattended runs are inert.  Without a terminal no publisher call is
\* ever in flight, nothing is ever marked or written, and no cycle waits
\* for input.
C9_UnattendedInert ==
    ~isTTY =>
        /\ hist.repliedTo = <<>> /\ hist.quotedTweets = <<>> /\ hist.postedTweets = <<>>
        /\ state = EmptyState
        /\ file = NoFile
        /\ \A r \in Slots : runs[r].pc \notin ({"publish", "sleepAction"} \cup PromptPcs)

\* C9 witness: without a terminal, with every action enabled, the last run
\* has gone through both topics and finished
C9_Witness ==
    /\ ~isTTY
    /\ settings.actions.postOriginal /\ settings.actions.reply /\ settings.actions.quoteTweet /\ settings.actions.like
    /\ spawned = MaxSeqRuns
    /\ \A r \in Slots : ~Active(runs[r])

\* C10: bounded history.  Each id sequence holds at most MAX_HISTORY ids and
\* is exactly the MAX_HISTORY most recently marked ids of its kind, in
\* marking order.
C10_BoundedHistory ==
    /\ Len(state.repliedTo) <= MAX_HISTORY
    /\ Len(state.quotedTweets) <= MAX_HISTORY
    /\ Len(state.postedTweets) <= MAX_HISTORY
    /\ state.repliedTo = SliceLast(hist.repliedTo, MAX_HISTORY)
    /\ state.quotedTweets = SliceLast(hist.quotedTweets, MAX_HISTORY)
    /\ state.postedTweets = SliceLast(hist.postedTweets, MAX_HISTORY)

\* C10 witness: more than MAX_HISTORY ids of one kind were marked, so the
\* oldest has been evicted
C10_Witness ==
    /\ Len(hist.postedTweets) > MAX_HISTORY
    /\ Len(state.postedTweets) = MAX_HISTORY
    /\ state.postedTweets[1] # hist.postedTweets[1]

\* C11: write-through.  Between store operations the persisted record is
\* the JSON document of the in-memory state: all three sequences, the id
\* just marked included, and the lastRunAt of the last save; with no record
\* nothing has been marked.
C11_WriteThrough ==
    /\ file.exists => (Parseable(file.doc) /\ Parse(file.doc) = state)
    /\ ~file.exists => (state = EmptyState /\ Marks = 0)
    /\ hist.repliedTo # <<>> => hasRepliedTo(Parse(file.doc), hist.repliedTo[Len(hist.repliedTo)])
    /\ hist.quotedTweets # <<>> => hasQuoted(Parse(file.doc), hist.quotedTweets[Len(hist.quotedTweets)])
    /\ Marks > 0 => Parse(file.doc).lastRunAt = Marks

\* C11 witness: the record holds the second save, with the id just marked
\* quoted
C11_Witness ==
    /\ file.exists
    /\ Marks = 2
    /\ Parse(file.doc).lastRunAt = 2
    /\ Parse(file.doc).quotedTweets = << TwB.id >>
    /\ state.quotedTweets = << TwB.id >>

\* the record on disk is unusable: not JSON, or JSON without the id arrays
Corrupted(f) == f.exists /\ (~Parseable(f.doc) \/ ~f.doc[2])

\* C12: load fallback.  While the record is absent or corrupted the store is
\* the fresh one (three empty sequences, lastRunAt null), and no has* or
\* mark operation raises.
C12_LoadFallback ==
    /\ ~Throws(state)
    /\ (~file.exists \/ Corrupted(file)) => state = EmptyState

\* C13: edit validation.  The validate callback rejects an empty or blank
\* input and one of 281 characters and accepts one of exactly 280; a
\* rejected input leaves the prompt open with its message and is never kept;
\* every text that leaves the edit path (to the confirm prompt, in a verdict,
\* to the publisher) is non-blank and at most 280 characters long.
C13_EditValidation ==
    /\ validate(Typed(0, 0)) # "true"
    /\ validate(Typed(3, 0)) # "true"
    /\ validate(Typed(281, 281)) # "true"
    /\ validate(Typed(280, 280)) = "true"
    /\ \A r \in Slots :
          /\ runs[r].pc = "input" => runs[r].edited = NoText
          /\ runs[r].err # "" => runs[r].pc = "input"
          /\ runs[r].pc = "confirm" =>
                (runs[r].edited.trimLen > 0 /\ runs[r].edited.len <= 280)
          /\ (runs[r].pc \in {"verdict", "publish"} /\ runs[r].result.text.src = "edit") =>
                (runs[r].result.text.trimLen > 0 /\ runs[r].result.text.len <= 280)
          /\ (runs[r].pc = "publish" /\ runs[r].arg.src = "edit") =>
                (runs[r].arg.trimLen > 0 /\ runs[r].arg.len <= 280)

\* C13 witness: an input was rejected as too long and the prompt is open
\* again
C13_Witness ==
    \E r \in Slots :
        runs[r].pc = "input" /\ runs[r].err = "Too long" /\ runs[r].cat = "reply"

\* the category that must come next in the cycle when category l.cat is left
\* without publishing: the first later one that is enabled and has something
\* to act on ("none": the cycle is over)
LaterCategory(l) ==
    IF /\ l.cat = "tweet"
       /\ settings.actions.reply /\ l.top # NoTweet /\ ~hasRepliedTo(state, l.top.id)
    THEN "reply"
    ELSE IF /\ l.cat \in {"tweet", "reply"}
            /\ settings.actions.quoteTweet
            /\ \E i \in DOMAIN l.allTweets :
                  ~hasQuoted(state, l.allTweets[i].id) /\ engagementScore(l.allTweets[i]) > 2 * 10
    THEN "quote"
    ELSE IF l.cat \in {"tweet", "reply", "quote"} /\ settings.actions.like /\ l.allTweets # <<>>
    THEN "like"
    ELSE "none"

\* the task in slot r takes a step that is not the end of the process
Stepped(r) == runs'[r] # runs[r] /\ restarts' = restarts

\* C14: publish failure is a skip.  When postTweet, replyToTweet or
\* quoteTweet raises, runTopicCycle catches it (its own line is logged, not
\* the scheduler's), no mark operation runs, the store and its record are
\* unchanged, and the cycle goes on with the next category that is due.
C14_PublishFailureIsSkip ==
    [][ \A r \in Slots :
          (runs[r].pc = "publish" /\ Stepped(r) /\ runs'[r].pc # "sleepAction") =>
              /\ runs'[r].log = PublishFailedLine(runs[r].cat)
              /\ state' = state /\ file' = file /\ hist' = hist
              /\ runs'[r].ti = runs[r].ti
              /\ runs'[r].cat = LaterCategory(runs[r])
              /\ runs'[r].cat = "none" <=> runs'[r].pc = "sleepTopic" ]_vars

\* C14 witness: replyToTweet raised, nothing was marked, and the quote
\* category is running
C14_Witness ==
    \E r \in Slots :
        /\ runs[r].log = "Bot: reply failed"
        /\ runs[r].cat = "quote" /\ runs[r].pc = "generate"
        /\ ~hasRepliedTo(state, runs[r].top.id)
        /\ hist.repliedTo = <<>>

\* C15: a like failure does not abort the cycle.  When likeTweet raises, the
\* error does not reach runAllTopics, and while selected candidates remain
\* the cycle stays in the like category.
C15_LikeFailureSwallowed ==
    [][ \A r \in Slots :
          (runs[r].pc = "like" /\ Stepped(r)) =>
              /\ runs'[r].log # "Scheduler: unhandled error"
              /\ runs[r].li < Len(toLike(runs[r])) => runs'[r].cat = "like" ]_vars

\* C16: cycle isolation.  When the first generate call of a category returns
\* null, the category is left with no prompt and no publish (nothing is
\* marked or written) and the cycle goes on with the next category that is
\* due; a null reply draft is followed by the quote or the like category.
C16_CycleIsolation ==
    [][ \A r \in Slots :
          (/\ runs[r].pc = "generate" /\ runs[r].text = NoText
           /\ Stepped(r) /\ runs'[r].cat # runs[r].cat) =>
              /\ state' = state /\ file' = file /\ hist' = hist
              /\ runs'[r].ti = runs[r].ti
              /\ runs'[r].cat = LaterCategory(runs[r])
              /\ runs'[r].pc \in {"generate", "like", "sleepTopic"}
              /\ runs'[r].cat = "none" <=> runs'[r].pc = "sleepTopic" ]_vars

\* C16 witness: generateReply returned null and the quote category is
\* running
C16_Witness ==
    \E r \in Slots :
        /\ runs[r].log = "AI: generateReply failed"
        /\ runs[r].cat = "quote" /\ runs[r].pc = "generate"
        /\ runs[r].text = NoText

\* C17: regenerate loop.  An action instance starts with one generator call
\* with a null tone; each 'regenerate' verdict is followed by one generator
\* call with the tone of that verdict, and each draft by one approveAction
\* call; when the operator approves after k tone changes the generator and
\* approveAction have been called k+1 times each and the publisher is called
\* once, with the last draft.
C17_RegenerateLoop ==
    [][ \A r \in Slots : Stepped(r) =>
          /\ (runs'[r].pc = "generate" /\ runs'[r].cat # runs[r].cat) =>
                (runs'[r].tone = NoTone /\ runs'[r].gens = 1 /\ runs'[r].asks = 0
                 /\ runs'[r].regens = 0)
          /\ (runs'[r].pc = "generate" /\ runs'[r].cat = runs[r].cat) =>
                /\ runs[r].pc = "verdict"
                /\ runs[r].result.action = "regenerate"
                /\ runs'[r].tone = runs[r].result.tone
                /\ runs'[r].tone # runs[r].tone
                /\ runs'[r].gens = runs[r].gens + 1
                /\ runs'[r].regens = runs[r].regens + 1
                /\ runs'[r].asks = runs[r].asks
          /\ (runs[r].pc = "generate" /\ runs'[r].cat = runs[r].cat) =>
                /\ runs'[r].text = Draft(runs[r].cat, runs[r].tone)
                /\ runs'[r].asks = runs[r].asks + 1
                /\ runs'[r].gens = runs[r].gens
          /\ (runs'[r].pc = "publish" /\ runs[r].result.text.src = "gen") =>
                /\ runs[r].pc = "verdict"
                /\ runs[r].gens = runs[r].regens + 1
                /\ runs[r].asks = runs[r].regens + 1
                /\ runs'[r].arg = Draft(runs[r].cat, runs[r].tone)
                /\ runs'[r].arg = runs[r].text
          /\ runs[r].pc = "publish" => runs'[r].pc # "publish" ]_vars

\* C17 witness: after one tone change the operator approved the second
\* draft, which is being published
C17_Witness ==
    \E r \in Slots :
        /\ runs[r].pc = "publish" /\ runs[r].cat = "quote"
        /\ runs[r].regens = 1 /\ runs[r].gens = 2 /\ runs[r].asks = 2
        /\ runs[r].arg = Draft("quote", "humorous")

\* C18: an approved reply is recorded exactly once.  When replyToTweet
\* returns, markReplied runs once with the id of the analysis-selected
\* target; repliedTo is marked at no other step; approveAction is not called
\* again for that action instance, which ends after the delay.
C18_ApprovedReplyRecordedOnce ==
    [][ /\ \A r \in Slots :
             (runs[r].pc = "publish" /\ runs[r].cat = "reply" /\ runs'[r].pc = "sleepAction") =>
                 /\ runs[r].result.action = "post"
                 /\ hist'.repliedTo = Append(hist.repliedTo, runs[r].top.id)
                 /\ state'.repliedTo = SliceLast(Append(state.repliedTo, runs[r].top.id), MAX_HISTORY)
                 /\ runs'[r].asks = runs[r].asks
        /\ hist'.repliedTo # hist.repliedTo =>
              \E r \in Slots :
                  runs[r].pc = "publish" /\ runs[r].cat = "reply" /\ runs'[r].pc = "sleepAction"
        /\ \A r \in Slots :
             (runs[r].pc = "sleepAction" /\ runs[r].cat = "reply" /\ Stepped(r)) =>
                 runs'[r].cat # "reply"
        /\ \A r \in Slots :
             (runs'[r].cat = "reply" /\ runs[r].cat # "reply") =>
                 runs[r].cat \in {"none", "tweet"} ]_vars

\* C18 witness: a reply approved on the first presentation was published and
\* its target is marked
C18_Witness ==
    \E r \in Slots :
        /\ runs[r].pc = "sleepAction" /\ runs[r].cat = "reply"
        /\ runs[r].asks = 1 /\ runs[r].result.action = "post"
        /\ runs[r].result.text.src = "gen"
        /\ hist.repliedTo = << runs[r].top.id >>
        /\ hasRepliedTo(state, runs[r].top.id)

\* twice the score of the claim: likes + 2*retweets + 1.5*replies
ClaimScore(t) == 2 * t.likes + 4 * t.retweets + 3 * t.replies

\* the position at which post t first arrived
FirstIndex(f, t) == CHOOSE i \in DOMAIN f : f[i] = t /\ \A j \in 1 .. (i - 1) : f[j] # t

\* C19: ranking.  The candidate list holds each fetched id that is not a
\* retweet's once, in non-increasing order of likes + 2*retweets + 1.5*replies,
\* posts of equal score in the order in which they were first fetched; these
\* conditions fix the list, so it depends on the fetched posts only.
C19_Ranking ==
    \A r \in Slots :
        runs[r].pc = "analyze" =>
            LET a == runs[r].allTweets
                f == runs[r].fetched
            IN  /\ Range(a) \subseteq Range(f)
                /\ { t.id : t \in Range(a) } = { t.id : t \in { u \in Range(f) : ~u.isRetweet } }
                /\ \A i, j \in DOMAIN a : i < j =>
                      /\ a[i].id # a[j].id
                      /\ ClaimScore(a[i]) >= ClaimScore(a[j])
                      /\ ClaimScore(a[i]) = ClaimScore(a[j]) =>
                            FirstIndex(f, a[i]) < FirstIndex(f, a[j])

\* C19 witness: two posts of equal score stay in fetch order behind a
\* higher-scored post fetched last, with a retweet and a repeat dropped
C19_Witness ==
    \E r \in Slots :
        /\ runs[r].pc = "analyze"
        /\ runs[r].fetched = << TwD, TwR, TwB, TwD, TwA >>
        /\ runs[r].allTweets = << TwA, TwD, TwB >>

\* post t of candidate list `all` qualifies for a quote: its score is
\* strictly above 10 and it is not marked quoted
Qualifies(t) == ClaimScore(t) > 2 * 10 /\ ~hasQuoted(state, t.id)

\* C20: quote selection.  The quote category runs only with the quote action
\* enabled and for a candidate of score strictly above 10; while its draft is
\* outstanding the target is unquoted and every candidate ranked before it
\* fails to qualify; and when the cycle comes to the quote category, the
\* category is entered exactly when some candidate qualifies.
C20_QuoteSelection ==
    [][ \A r \in Slots : Stepped(r) =>
          /\ runs'[r].cat = "quote" =>
                /\ settings.actions.quoteTweet
                /\ ClaimScore(runs'[r].target) > 2 * 10
                /\ \E i \in DOMAIN runs'[r].allTweets :
                      /\ runs'[r].allTweets[i] = runs'[r].target
                      /\ runs'[r].pc \in DraftPcs =>
                            /\ ~hasQuoted(state', runs'[r].target.id)
                            /\ \A j \in 1 .. (i - 1) :
                                  \/ ClaimScore(runs'[r].allTweets[j]) <= 2 * 10
                                  \/ hasQuoted(state', runs'[r].allTweets[j].id)
          /\ (/\ runs[r].pc \in {"analyze", "generate", "verdict", "publish", "sleepAction"}
              /\ runs[r].cat \in {"none", "tweet", "reply"}
              /\ runs'[r].cat \notin {"tweet", "reply"}
              /\ (runs'[r].cat # runs[r].cat \/ runs'[r].pc = "sleepTopic")
              /\ settings.actions.quoteTweet) =>
                (runs'[r].cat = "quote" <=> \E i \in DOMAIN runs[r].allTweets :
                                                Qualifies(runs[r].allTweets[i])) ]_vars

\* C20 witness: with the quote action enabled the only candidate scores
\* exactly 10 and is unquoted; the cycle is in the like category without
\* having quoted
C20_Witness ==
    \E r \in Slots :
        /\ settings.actions.quoteTweet
        /\ runs[r].allTweets = << TwC >>
        /\ ClaimScore(TwC) = 2 * 10
        /\ ~hasQuoted(state, TwC.id)
        /\ runs[r].pc = "like"
        /\ hist.quotedTweets # <<>>

\* the number of likes due in a cycle: min(likesPerCycle, n)
LikeCount(l) ==
    IF settings.likesPerCycle <= Len(l.allTweets) THEN settings.likesPerCycle
    ELSE Len(l.allTweets)

\* C21: likes.  With the like action enabled a cycle that comes to the like
\* category calls likeTweet for candidate 1, then, each call having
\* succeeded, for candidates 2 .. min(likesPerCycle, n) in rank order and for
\* no other; no approveAction call is made for a like, and which ids are
\* liked depends on the candidate list and likesPerCycle only.
C21_Likes ==
    [][ \A r \in Slots : Stepped(r) =>
          /\ (runs'[r].cat = "like" /\ runs[r].cat # "like") =>
                (settings.actions.like /\ runs'[r].pc = "like" /\ runs'[r].li = 1)
          /\ runs'[r].cat = "like" =>
                /\ runs'[r].pc \in {"like", "sleepLike"}
                /\ runs'[r].asks = 0
                /\ runs'[r].li \in 1 .. LikeCount(runs'[r])
                /\ LikeArg(runs'[r]) = runs'[r].allTweets[runs'[r].li].id
          /\ (runs[r].pc = "like" /\ runs'[r].pc = "sleepLike") => runs'[r].li = runs[r].li
          /\ runs[r].pc = "sleepLike" =>
                IF runs[r].li < LikeCount(runs[r])
                THEN runs'[r].pc = "like" /\ runs'[r].li = runs[r].li + 1
                ELSE runs'[r].pc = "sleepTopic"
          /\ (/\ runs[r].pc \in {"analyze", "generate", "verdict", "publish", "sleepAction"}
              /\ runs'[r].pc = "sleepTopic") => ~settings.actions.like ]_vars

\* C21 witness: in a later run the second like goes to the second-ranked
\* candidate although the first-ranked one is already replied to and quoted
C21_Witness ==
    \E r \in Slots :
        /\ runs[r].pc = "like" /\ runs[r].li = 2
        /\ LikeArg(runs[r]) = TwB.id
        /\ hasRepliedTo(state, TwA.id) /\ hasQuoted(state, TwA.id)
        /\ spawned >= 2

\* C22: short-circuit.  A cycle goes past its fetch loop only with at least
\* one candidate; when none remains after dedupe and repost filtering (every
\* fetched post was a repost), the cycle ends at that step with the warning
\* logged: no analyzer, generator, approveAction, publisher, like or mark
\* call is made, and the store and its record are unchanged.
C22_ShortCircuit ==
    [][ \A r \in Slots : Stepped(r) =>
          /\ runs'[r].pc \notin {"idle", "fetch", "sleepTopic"} => runs'[r].allTweets # <<>>
          /\ runs[r].pc = "fetch" =>
                /\ runs'[r].pc \in {"fetch", "analyze", "sleepTopic"}
                /\ state' = state /\ file' = file /\ hist' = hist
                /\ runs'[r].pc = "analyze" =>
                      \E i \in DOMAIN runs'[r].fetched : ~runs'[r].fetched[i].isRetweet
                /\ runs'[r].pc = "sleepTopic" =>
                      /\ runs'[r].log = "Bot: no tweets found"
                      /\ runs[r].ai = Len(Topics[runs[r].ti].accounts)
                      /\ \A i \in DOMAIN runs[r].fetched : runs[r].fetched[i].isRetweet
                      /\ runs'[r].gens = 0 /\ runs'[r].asks = 0 /\ runs'[r].li = 0
                      /\ runs'[r].top = NoTweet ]_vars

\* C22 witness: topic t3 fetched a repost only; its cycle has returned with
\* the warning and nothing else done
C22_Witness ==
    \E r \in Slots :
        /\ runs[r].pc = "sleepTopic" /\ runs[r].ti = 3
        /\ runs[r].log = "Bot: no tweets found"
        /\ settings.actions.like /\ settings.actions.quoteTweet

\* position i of fetch order f holds the first fetched occurrence of its id
IsFirst(f, i) == \A j \in 1 .. (i - 1) : f[j].id # f[i].id

\* C23: dedupe and filter.  The candidate list holds no two posts with the
\* same id and no post flagged isRetweet, and it holds exactly the first
\* fetched occurrences of the ids whose first occurrence is not a retweet.
C23_DedupeFilter ==
    \A r \in Slots :
        runs[r].pc = "analyze" =>
            LET a == runs[r].allTweets
                f == runs[r].fetched
            IN  /\ \A i, j \in DOMAIN a : i # j => a[i].id # a[j].id
                /\ \A i \in DOMAIN a : ~a[i].isRetweet
                /\ Range(a) = { f[i] : i \in { k \in DOMAIN f : IsFirst(f, k) /\ ~f[k].isRetweet } }

\* C23 witness: an id fetched twice with different counts is ranked by its
\* first fetched occurrence, and the repost is gone
C23_Witness ==
    \E r \in Slots :
        /\ runs[r].pc = "analyze"
        /\ runs[r].fetched = << TwA2, TwR, TwB, TwA >>
        /\ runs[r].allTweets = << TwB, TwA2 >>

\* C24: scheduler order.  A run moves to another topic only from the
\* inter-topic sleep of the previous cycle (or from its start); the topic it
\* moves to is the next enabled one in configured order, every topic passed
\* over is disabled, and the run ends only when no enabled topic is left.
C24_SchedulerOrder ==
    [][ \A r \in Slots : Stepped(r) =>
          /\ runs[r].pc \notin {"idle", "sleepTopic"} =>
                runs'[r].ti = runs[r].ti /\ runs'[r].pc # "idle"
          /\ runs[r].pc \in {"idle", "sleepTopic"} =>
                \/ /\ runs'[r].pc = "idle"
                   /\ \A k \in DOMAIN Topics : k > runs[r].ti => ~Topics[k].enabled
                \/ /\ runs'[r].pc # "idle"
                   /\ runs'[r].ti \in DOMAIN Topics
                   /\ runs'[r].ti > runs[r].ti
                   /\ Topics[runs'[r].ti].enabled
                   /\ \A k \in DOMAIN Topics :
                         (k > runs[r].ti /\ k < runs'[r].ti) => ~Topics[k].enabled
                   /\ runs'[r].gens = 0 /\ runs'[r].asks = 0 ]_vars

\* C24 witness: the run has finished the first topic, passed over the
\* disabled second one and is fetching for the third
C24_Witness ==
    \E r \in Slots :
        /\ runs[r].pc = "fetch" /\ runs[r].ti = 3
        /\ ~Topics[2].enabled /\ Topics[1].enabled
        /\ state.lastRunAt > 0

\* the first enabled topic after index i, 0 when there is none
NextEnabled(i) ==
    LET nxt == { k \in DOMAIN Topics : k > i /\ Topics[k].enabled } IN
    IF nxt = {} THEN 0 ELSE CHOOSE k \in nxt : \A j \in nxt : k <= j

\* C25: scheduler error isolation.  When runTopicCycle raises (likeTweet
\* rejects), runAllTopics logs the error and goes on to its inter-topic sleep
\* for the same topic, with the cron job still scheduled; from that sleep the
\* next enabled topic gets its cycle, as after a cycle that returned; and no
\* step of a run unschedules the cron job.
C25_SchedulerErrorIsolation ==
    [][ \A r \in Slots : Stepped(r) =>
          /\ cronOn => cronOn'
          /\ (runs[r].pc = "like" /\ runs'[r].pc # "sleepLike") =>
                /\ runs'[r].pc = "sleepTopic"
                /\ runs'[r].ti = runs[r].ti
                /\ runs'[r].log = "Scheduler: unhandled error"
                /\ cronOn'
          /\ (runs[r].pc = "sleepTopic" /\ runs[r].log = "Scheduler: unhandled error") =>
                IF NextEnabled(runs[r].ti) = 0
                THEN runs'[r].pc = "idle"
                ELSE /\ runs'[r].ti = NextEnabled(runs[r].ti)
                     /\ runs'[r].pc \in {"fetch", "sleepTopic"} ]_vars

\* C25 witness: the cycle of the first topic raised, the scheduler logged it
\* and is in the inter-topic sleep with a later enabled topic to come
C25_Witness ==
    \E r \in Slots :
        /\ runs[r].pc = "sleepTopic" /\ runs[r].ti = 1
        /\ runs[r].log = "Scheduler: unhandled error"
        /\ NextEnabled(1) = 3
        /\ cronOn

\* the step of slot r stays within the action instance it was in
SameInstance(r) ==
    /\ runs[r].cat \in {"tweet", "reply", "quote"}
    /\ runs'[r].cat = runs[r].cat
    /\ runs'[r].ti = runs[r].ti

\* C26: approval state machine.  After a 'post' or 'skip' verdict the
\* instance is never presented again: a skip leaves the instance, a post
\* makes one publish call and then leaves it.  A publish call follows a
\* 'post' verdict only.  The instance is presented again only when a
\* 'regenerate' verdict was followed by a generator call that returned a text.
C26_ApprovalStateMachine ==
    [][ \A r \in Slots : Stepped(r) =>
          /\ (runs[r].pc = "verdict" /\ runs[r].result.action = "skip") => ~SameInstance(r)
          /\ (runs[r].pc = "verdict" /\ runs[r].result.action = "post") =>
                SameInstance(r) /\ runs'[r].pc = "publish"
          /\ (runs[r].pc = "publish" /\ SameInstance(r)) => runs'[r].pc = "sleepAction"
          /\ runs[r].pc = "sleepAction" => ~SameInstance(r)
          /\ (runs'[r].pc = "publish" /\ runs[r].pc # "publish") =>
                runs[r].pc = "verdict" /\ runs[r].result.action = "post"
          /\ (SameInstance(r) /\ runs'[r].asks # runs[r].asks) =>
                /\ runs[r].pc = "generate"
                /\ runs'[r].asks = runs[r].asks + 1
                /\ Truthy(runs'[r].text)
                /\ runs[r].asks > 0 =>
                      /\ runs[r].result.action = "regenerate"
                      /\ runs[r].regens = runs[r].asks
          /\ (SameInstance(r) /\ runs'[r].pc = "generate") =>
                runs[r].pc = "verdict" /\ runs[r].result.action = "regenerate" ]_vars

\* C26 witness: the instance is presented for the second time, after a
\* 'regenerate' verdict and a regeneration that returned a text
C26_Witness ==
    \E r \in Slots :
        /\ runs[r].pc = "select" /\ runs[r].cat = "reply"
        /\ runs[r].asks = 2 /\ runs[r].regens = 1
        /\ runs[r].result = NoResult

\* C27: tone change.  A 'regenerate' verdict carries a tone of the registry
\* that differs from the tone approveAction was called with; a draft
\* generated after it has another tone than the draft before it; and from
\* the call of approveAction to its return no generator is called.
C27_ToneChange ==
    [][ \A r \in Slots : Stepped(r) =>
          /\ (runs'[r].pc = "verdict" /\ runs'[r].result.action = "regenerate") =>
                /\ runs[r].pc = "pickTone"
                /\ runs'[r].result.tone \in ToneIds
                /\ runs'[r].result.tone # runs[r].tone
                /\ runs'[r].tone = runs[r].tone
          /\ (runs[r].pc = "generate" /\ SameInstance(r) /\ runs[r].gens > 1) =>
                /\ runs[r].text.tone # runs[r].tone
                /\ runs'[r].text.tone = runs[r].tone
                /\ runs[r].tone \in ToneIds
          /\ (runs[r].pc \in PromptPcs \/ runs'[r].pc \in PromptPcs \cup {"verdict"}) =>
                \/ runs'[r].gens = runs[r].gens
                \/ ~SameInstance(r) ]_vars

\* C27 witness: the second 'regenerate' verdict of an instance, given while
\* a tone of the registry was active: it carries the other tone
C27_Witness ==
    \E r \in Slots :
        /\ runs[r].pc = "verdict" /\ runs[r].result.action = "regenerate"
        /\ runs[r].regens = 1
        /\ runs[r].tone = "serious" /\ runs[r].result.tone = "humorous"

\* C28: abandoned approval.  When the process ends while a prompt of
\* approveAction is open, the task is gone (it makes no publish call), no
\* mark is recorded, the record on disk is left as the last completed mark
\* wrote it (absent when there was none), and the next process loads it.
C28_AbandonedApproval ==
    [][ (restarts' # restarts /\ Prompted(runs) # {}) =>
          /\ \A r \in Slots : runs'[r] = IdleRun
          /\ hist'.repliedTo = hist.repliedTo
          /\ hist'.quotedTweets = hist.quotedTweets
          /\ hist'.postedTweets = hist.postedTweets
          /\ file' = file
          /\ file.exists <=> Marks > 0
          /\ file.exists => (file = WriteFile(state) /\ state.lastRunAt = Marks)
          /\ state' = state
          /\ \A r \in Prompted(runs) :
                /\ runs[r].cat = "reply" => ~hasRepliedTo(state', runs[r].target.id)
                /\ runs[r].cat = "quote" => ~hasQuoted(state', runs[r].target.id) ]_vars

\* C28 witness: the process ended at the prompt for a reply, after an
\* original post had been published and marked; the next process knows the
\* post and no reply
C28_Witness ==
    /\ restarts = 1
    /\ hist.abandoned = "reply"
    /\ hist.repliedTo = <<>>
    /\ Len(hist.postedTweets) = 1
    /\ state.postedTweets = hist.postedTweets
    /\ state.repliedTo = <<>>
    /\ Parse(file.doc) = state

\* C29: Tone Registry lookup.  toneInstruction(id) is the empty string when
\* id is null or no value of the registry, and "\nTone: " followed by the
\* instruction of the tone with that value otherwise; getTone(id) is the
\* record whose value is id, or null when the registry has none.
C29_ToneLookup ==
    \A r \in Slots :
        LET id == runs[r].tone IN
        /\ id \notin ToneIds =>
              (runs[r].note = "" /\ getTone(id) = NullTone)
        /\ id \in ToneIds =>
              /\ getTone(id) \in Range(TONES)
              /\ getTone(id).value = id
              /\ runs[r].note = "\nTone: " \o getTone(id).instruction
              /\ runs[r].note # ""
        /\ id = "serious" => runs[r].note = "\nTone: Write in a serious, thoughtful tone."
        /\ id = "humorous" => runs[r].note = "\nTone: Write in a witty, funny tone."

\* C29 witness: toneInstruction was applied to a registered id and to a
\* string that differs from one only by case
C29_Witness ==
    /\ runs[1].tone = "humorous"
    /\ runs[1].note = "\nTone: Write in a witty, funny tone."
    /\ runs[2].tone = "Serious"
    /\ runs[2].note = ""

\* C30: declined edit.  When the operator declines "Post this?" after an
\* edit, approveAction returns 'skip' with the edited text, not the text it
\* was given; the caller then leaves the action instance with no publish
\* call, no mark and no write.
C30_DeclinedEdit ==
    [][ \A r \in Slots : Stepped(r) =>
          /\ (runs[r].pc = "confirm" /\ runs'[r].result.action = "skip") =>
                /\ runs'[r].pc = "verdict"
                /\ runs'[r].result.text = runs[r].edited
                /\ runs'[r].result.text # runs[r].text
                /\ validate(runs'[r].result.text) = "true"
                /\ runs'[r].text = runs[r].text
          /\ (/\ runs[r].pc = "verdict" /\ runs[r].result.action = "skip"
              /\ runs[r].result.text.src = "edit") =>
                /\ runs'[r].pc \notin {"publish", "sleepAction"}
                /\ ~SameInstance(r)
                /\ state' = state /\ file' = file /\ hist' = hist ]_vars

\* C30 witness: approveAction has returned 'skip' with the edited text for a
\* reply whose edit was declined
C30_Witness ==
    \E r \in Slots :
        /\ runs[r].pc = "verdict" /\ runs[r].cat = "reply"
        /\ runs[r].result.action = "skip"
        /\ runs[r].result.text = Typed(280, 280)
        /\ runs[r].text = Draft("reply", NoTone)

\* C31: failed regeneration.  When the generator call that follows a
\* 'regenerate' verdict returns null, the instance is left as skipped:
\* approveAction is not called again (no prompt, no verdict), no publisher
\* and no mark is called (store, record and history unchanged), the failure
\* is logged by the generator, and the cycle goes on with the next category
\* that is due in the same topic.
C31_FailedRegeneration ==
    [][ \A r \in Slots :
          (/\ Stepped(r) /\ runs[r].pc = "generate" /\ runs[r].regens > 0
           /\ runs'[r].log = GenerateFailedLine(runs[r].cat)) =>
              /\ ~SameInstance(r)
              /\ runs'[r].broke
              /\ runs'[r].asks = 0
              /\ runs'[r].pc \in {"generate", "like", "sleepTopic"}
              /\ state' = state /\ file' = file /\ hist' = hist
              /\ runs'[r].ti = runs[r].ti
              /\ runs'[r].cat = LaterCategory(runs[r])
              /\ runs'[r].cat = "none" <=> runs'[r].pc = "sleepTopic" ]_vars

\* C31 witness: generateReply returned null after a tone change and the
\* quote category is running, the reply target not marked
C31_Witness ==
    \E r \in Slots :
        /\ runs[r].log = "AI: generateReply failed"
        /\ runs[r].cat = "quote" /\ runs[r].pc = "generate"
        /\ runs[r].broke
        /\ runs[r].gens = 1 /\ runs[r].asks = 0
        /\ ~hasRepliedTo(state, runs[r].top.id)
        /\ hist.repliedTo = <<>>

\* C32: original post recording.  In the original-post category a 'post'
\* verdict is followed by a publish call with the verdict's text, and when
\* the publisher resolves with a tweet its id is appended to postedTweets by
\* markPosted and written; a 'skip' verdict is followed by no publish and no
\* mark; only the step that resumes from the publish call changes the store;
\* and no step of the category changes repliedTo or quotedTweets.
C32_OriginalPostRecording ==
    [][ \A r \in Slots : (Stepped(r) /\ runs[r].cat = "tweet") =>
          /\ state'.repliedTo = state.repliedTo
          /\ state'.quotedTweets = state.quotedTweets
          /\ hist'.repliedTo = hist.repliedTo
          /\ hist'.quotedTweets = hist.quotedTweets
          /\ runs[r].pc # "publish" => (state' = state /\ file' = file /\ hist' = hist)
          /\ (runs[r].pc = "verdict" /\ runs[r].result.action = "post") =>
                (runs'[r].pc = "publish" /\ runs'[r].arg = runs[r].result.text)
          /\ (runs[r].pc = "verdict" /\ runs[r].result.action = "skip") =>
                runs'[r].pc \notin {"publish", "sleepAction"}
          /\ (runs[r].pc = "publish" /\ runs'[r].pc = "sleepAction") =>
                IF runs'[r].res # 0
                THEN /\ hist'.postedTweets = Append(hist.postedTweets, runs'[r].res)
                     /\ state'.postedTweets =
                           SliceLast(Append(state.postedTweets, runs'[r].res), MAX_HISTORY)
                     /\ file' = WriteFile(state')
                     /\ ~Includes(state.postedTweets, runs'[r].res)
                ELSE state' = state /\ file' = file /\ hist' = hist
          /\ (runs[r].pc = "publish" /\ runs'[r].pc # "sleepAction") =>
                (state' = state /\ file' = file /\ hist' = hist) ]_vars

\* C32 witness: an edited original post was published, the publisher
\* returned its id and markPosted recorded it
C32_Witness ==
    \E r \in Slots :
        /\ runs[r].pc = "sleepAction" /\ runs[r].cat = "tweet"
        /\ runs[r].result.action = "post" /\ runs[r].arg = Typed(280, 280)
        /\ runs[r].res = 101
        /\ state.postedTweets = << 101 >>
        /\ state.repliedTo = <<>> /\ state.quotedTweets = <<>>
        /\ Parse(file.doc) = state

\* C33: delay after publish.  The cycle is in the inter-action delay exactly
\* after a publisher call of an original post, reply or quote has resolved
\* (the reply or quote marked in the same step); the next category begins
\* only when the delay has elapsed; and a skipped action, a failed draft or a
\* failed publish goes on to the next category with no delay.
C33_DelayAfterPublish ==
    [][ \A r \in Slots : Stepped(r) =>
          /\ (runs'[r].pc = "sleepAction" /\ runs[r].pc # "sleepAction") =>
                /\ runs[r].pc = "publish" /\ SameInstance(r)
                /\ runs'[r].log = ""
                /\ runs[r].cat = "reply" =>
                      hist'.repliedTo = Append(hist.repliedTo, runs[r].target.id)
                /\ runs[r].cat = "quote" =>
                      hist'.quotedTweets = Append(hist.quotedTweets, runs[r].target.id)
          /\ (runs[r].pc = "publish" /\ runs'[r].log # PublishFailedLine(runs[r].cat)) =>
                runs'[r].pc = "sleepAction"
          /\ (runs[r].pc = "publish" /\ runs'[r].log = PublishFailedLine(runs[r].cat)) =>
                (runs'[r].pc # "sleepAction" /\ ~SameInstance(r))
          /\ runs[r].pc = "sleepAction" =>
                /\ ~SameInstance(r)
                /\ runs'[r].cat = LaterCategory(runs[r])
                /\ state' = state /\ file' = file /\ hist' = hist
          /\ (runs[r].pc \in {"generate", "verdict"} /\ ~SameInstance(r)) =>
                runs'[r].pc # "sleepAction" ]_vars

\* C33 witness: a quote was published and marked and the cycle is waiting
\* delayBetweenActions, the like category still to come
C33_Witness ==
    \E r \in Slots :
        /\ runs[r].pc = "sleepAction" /\ runs[r].cat = "quote"
        /\ hist.quotedTweets # <<>>
        /\ hist.quotedTweets[Len(hist.quotedTweets)] = runs[r].target.id
        /\ LaterCategory(runs[r]) = "like"

\* the place of a category in the order of runTopicCycle
CatRank(cat) ==
    CASE cat = "tweet" -> 1
      [] cat = "reply" -> 2
      [] cat = "quote" -> 3
      [] cat = "like"  -> 4
      [] OTHER         -> 0

\* C34: category order.  In a cycle the analyzer is called once, from the
\* fetch, and no generator is called before it has returned; the categories
\* begin in the order original post, reply, quote, like; and a category is
\* left only from one of its ends (null draft, skip verdict, failed publish,
\* the delay after a publish and its mark; for likes, a like call or its
\* delay), never from an open prompt or a pending publisher call.
C34_CategoryOrder ==
    [][ \A r \in Slots : Stepped(r) =>
          /\ runs'[r].pc = "analyze" => runs[r].pc = "fetch"
          /\ runs[r].pc = "analyze" => runs'[r].pc # "analyze"
          /\ (runs'[r].pc = "fetch" /\ runs[r].pc # "fetch") =>
                runs[r].pc \in {"idle", "sleepTopic"}
          /\ runs[r].pc \in {"idle", "sleepTopic", "fetch"} =>
                (runs'[r].cat = "none" /\ runs'[r].gens = 0)
          /\ runs[r].pc = "analyze" =>
                (runs[r].cat = "none" /\ runs[r].gens = 0)
          /\ (runs'[r].cat # runs[r].cat /\ runs'[r].cat # "none") =>
                /\ CatRank(runs'[r].cat) > CatRank(runs[r].cat)
                /\ runs'[r].ti = runs[r].ti
          /\ (runs'[r].cat # runs[r].cat /\ runs[r].cat \in {"tweet", "reply", "quote"}) =>
                /\ runs[r].pc \in {"generate", "verdict", "sleepAction", "publish"}
                /\ runs[r].pc = "verdict" => runs[r].result.action = "skip"
                /\ runs[r].pc = "publish" => runs'[r].log = PublishFailedLine(runs[r].cat)
                /\ runs[r].pc = "generate" => runs'[r].log = GenerateFailedLine(runs[r].cat)
          /\ (runs'[r].cat # runs[r].cat /\ runs[r].cat = "like") =>
                (runs[r].pc \in {"like", "sleepLike"} /\ runs'[r].pc = "sleepTopic")
          /\ (runs'[r].cat = "none" /\ runs[r].cat # "none") =>
                runs'[r].pc = "sleepTopic" ]_vars

\* C34 witness: in its first cycle the run has posted, replied and quoted,
\* in that order, and is in the like category
C34_Witness ==
    \E r \in Slots :
        /\ runs[r].cat = "like" /\ runs[r].pc = "like" /\ runs[r].ti = 1
        /\ spawned = 1 /\ restarts = 0
        /\ Len(hist.postedTweets) = 1
        /\ Len(hist.repliedTo) = 1
        /\ Len(hist.quotedTweets) = 1

\* C35: tone scope.  The first generator call and the first presentation of
\* every action instance have a null tone (and an empty tone fragment); the
\* tone becomes a registry tone only by a 'regenerate' verdict of the same
\* instance, which the regeneration then uses; and whenever the instance is
\* left the tone is null again, whatever it was.
C35_ToneScope ==
    [][ \A r \in Slots : Stepped(r) =>
          /\ runs'[r].regens = 0 => (runs'[r].tone = NoTone /\ runs'[r].note = "")
          /\ (runs'[r].pc = "generate" /\ runs'[r].gens = 1) => runs'[r].tone = NoTone
          /\ (runs'[r].pc \in PromptPcs \cup {"verdict"} /\ runs'[r].asks = 1) =>
                (runs'[r].tone = NoTone /\ runs'[r].text.tone = NoTone)
          /\ runs'[r].tone # runs[r].tone =>
                \/ /\ ~SameInstance(r) /\ runs'[r].tone = NoTone
                \/ /\ SameInstance(r)
                   /\ runs[r].pc = "verdict" /\ runs[r].result.action = "regenerate"
                   /\ runs'[r].tone = runs[r].result.tone
                   /\ runs'[r].pc = "generate"
                   /\ runs'[r].note = toneInstruction(runs'[r].tone)
          /\ ~SameInstance(r) => (runs'[r].tone = NoTone /\ runs'[r].regens = 0)
          /\ (runs[r].pc = "generate" /\ SameInstance(r) /\ Truthy(runs'[r].text)) =>
                runs'[r].text.tone = runs[r].tone ]_vars

\* C35 witness: the reply instance was left with a registry tone active
\* (its regeneration failed) and the quote instance starts with a null tone
C35_Witness ==
    \E r \in Slots :
        /\ runs[r].cat = "quote" /\ runs[r].pc = "generate"
        /\ runs[r].broke /\ runs[r].log = "AI: generateReply failed"
        /\ runs[r].tone = NoTone /\ runs[r].note = "" /\ runs[r].regens = 0

\* no id occurs twice in sequence h
NoDuplicates(h) == \A i, j \in DOMAIN h : i # j => h[i] # h[j]

C37_PublishedTextNotEmpty ==
    \A r \in Slots :
        runs[r].pc = "publish" =>
            /\ runs[r].arg.src \in {"gen", "edit"}
            /\ runs[r].arg.len > 0
            /\ runs[r].arg.src = "edit" => runs[r].arg.trimLen > 0

\* C37 witness: after the first draft was regenerated in another tone and
\* the second was edited, the edit is handed to the publisher
C37_Witness ==
    \E r \in Slots :
        /\ runs[r].pc = "publish" /\ runs[r].cat = "reply"
        /\ runs[r].regens = 1
        /\ runs[r].arg = Typed(280, 280)
        /\ runs[r].text.len = 2 /\ runs[r].text.trimLen = 0

\* C38: published text respects the length limit.  Every text handed to
\* postTweet, replyToTweet or quoteTweet is at most 280 characters long.
C38_PublishedTextWithinLimit ==
    \A r \in Slots :
        runs[r].pc = "publish" => runs[r].arg.len <= 280

\* every sequence of store st holds at most MAX_HISTORY ids
WithinHistory(st) ==
    /\ Len(st.repliedTo) <= MAX_HISTORY
    /\ Len(st.quotedTweets) <= MAX_HISTORY
    /\ Len(st.postedTweets) <= MAX_HISTORY

\* the id of the mark call of this step, of the kind whose history grew
MarkedId(kind) == hist'[kind][Len(hist'[kind])]

\* has* answer the same in both stores for every id
SameAnswers(st1, st2, kinds) ==
    \A id \in TweetIds :
        /\ "repliedTo" \in kinds => (hasRepliedTo(st1, id) <=> hasRepliedTo(st2, id))
        /\ "quotedTweets" \in kinds => (hasQuoted(st1, id) <=> hasQuoted(st2, id))

\* C39: frame of the mark operations.  On a store whose sequences hold at
\* most MAX_HISTORY ids each, a mark call appends its id to the sequence of
\* its kind (dropping that sequence's oldest id when it is full), moves
\* lastRunAt forward, and leaves the two other sequences, and the answers of
\* has* about them, as they were.
C39_MarkFrame ==
    [][ (restarts' = restarts /\ WithinHistory(state) /\ ~Throws(state)) =>
          /\ hist'.repliedTo # hist.repliedTo =>
                /\ state'.repliedTo =
                      SliceLast(Append(state.repliedTo, MarkedId("repliedTo")), MAX_HISTORY)
                /\ state'.quotedTweets = state.quotedTweets
                /\ state'.postedTweets = state.postedTweets
                /\ state'.lastRunAt > state.lastRunAt
                /\ SameAnswers(state, state', {"quotedTweets"})
          /\ hist'.quotedTweets # hist.quotedTweets =>
                /\ state'.quotedTweets =
                      SliceLast(Append(state.quotedTweets, MarkedId("quotedTweets")), MAX_HISTORY)
                /\ state'.repliedTo = state.repliedTo
                /\ state'.postedTweets = state.postedTweets
                /\ state'.lastRunAt > state.lastRunAt
                /\ SameAnswers(state, state', {"repliedTo"})
          /\ hist'.postedTweets # hist.postedTweets =>
                /\ state'.postedTweets =
                      SliceLast(Append(state.postedTweets, MarkedId("postedTweets")), MAX_HISTORY)
                /\ state'.repliedTo = state.repliedTo
                /\ state'.quotedTweets = state.quotedTweets
                /\ state'.lastRunAt > state.lastRunAt
                /\ SameAnswers(state, state', {"repliedTo", "quotedTweets"})
          /\ WithinHistory(state')
          /\ file' = WriteFile(state') \/ UNCHANGED << state, file >> ]_vars

\* C39 witness: three quote marks, the oldest evicted from the full quoted
\* sequence, have left the one replied id in place
C39_Witness ==
    /\ hist.repliedTo = << TwA.id >>
    /\ Len(hist.quotedTweets) = 3
    /\ Len(state.quotedTweets) = MAX_HISTORY
    /\ state.quotedTweets = SliceLast(hist.quotedTweets, MAX_HISTORY)
    /\ state.repliedTo = << TwA.id >>
    /\ hasRepliedTo(state, TwA.id)
    /\ state.lastRunAt = 4

\* C40: progress.  Under fair scheduling every action instance in progress
\* is eventually left (posted or discarded), every cycle in progress
\* eventually completes, every run eventually ends, and without a terminal
\* no prompt is ever open, so that the cycles complete with no operator
\* input.
C40_Progress ==
    /\ \A r \in Slots : \A c \in {"tweet", "reply", "quote"} :
          (runs[r].cat = c) ~> (runs[r].cat # c)
    /\ \A r \in Slots : \A t \in DOMAIN Topics :
          (InCycle(runs[r]) /\ runs[r].ti = t) ~> (~InCycle(runs[r]) /\ runs[r].ti = t)
    /\ \A r \in Slots : Active(runs[r]) ~> ~Active(runs[r])
    /\ [](~isTTY => \A r \in Slots : runs[r].pc \notin PromptPcs)

\* C40 witness: the run has ended after cycles in which an original post, a
\* reply and a quote were approved and published
C40_Witness ==
    /\ spawned = 1
    /\ \A r \in Slots : ~Active(runs[r])
    /\ isTTY
    /\ Len(hist.postedTweets) = 1 /\ Len(hist.repliedTo) = 1 /\ Len(hist.quotedTweets) = 1

====
